---- MODULE Spec2Model ----
(***************************************************************************)
(* Portability scoring engine of platform-readiness                        *)
(* (backend/src/services/portabilityChecker.ts).                           *)
(*                                                                         *)
(* A repository file is a record [path, snippets, json]:                   *)
(*   snippets - the pattern-relevant pieces of text the content contains;  *)
(*              a regular expression of the source is modelled by the set  *)
(*              of snippets it matches, and regex.test(content) by a       *)
(*              non-empty intersection;                                    *)
(*   json     - what JSON.parse(content) does with the content: it throws  *)
(*              a SyntaxError (ok = FALSE) or yields an object with or     *)
(*              without a dependencies / devDependencies collection.       *)
(* Version specifiers are non-empty strings, hence truthy: a dependency    *)
(* map is modelled by the set of its keys.                                 *)
(*                                                                         *)
(* The fetch layer pushes the files of the repository tree one by one, in  *)
(* the order of the tree (sorted by path, each path once); a scoring call  *)
(* may be made on any list fetched so far.  A scoring call either returns  *)
(* a PortabilityResult or ends in the exception JSON.parse raised.         *)
(* The narrative strings of the result are records of the template used    *)
(* and of the values interpolated into it.                                 *)
(*                                                                         *)
(* The Azure pipeline runs on the same list: checkAzureReadiness           *)
(* (backend/src/checkers/azure.ts) scores it and adds the platform checks, *)
(* and generatePatch (backend/src/services/patcher.ts) hands the readiness *)
(* issues to portToAzure (backend/src/porters/azure.ts).                   *)
(*                                                                         *)
(* A second specification, SpecCalls, interleaves two scoring calls rule   *)
(* by rule, each on its own file list and with its own local variables.    *)
(***************************************************************************)
EXTENDS Integers, Sequences, FiniteSets, TLC

VARIABLES repoFiles, pc, result, readiness, porting, patch, console,
          calls, locals

vars == <<repoFiles, pc, result, readiness, porting, patch, console, calls, locals>>

----------------------------------------------------------------------------
(* Bounds of the model: the number of files of a list, and the number of  *)
(* snippets and packages the files of a list hold together.               *)

MaxFiles == 3

MaxFeatures == 2

----------------------------------------------------------------------------
(* The input universe *)

ManifestPath == "package.json"

(* The paths of a repository tree, in the order the tree lists them. *)
PathOrder ==
    <<"backend/package.json", "node_modules/lib/index.js", "package.json", "src/index.js">>

Paths == {PathOrder[i] : i \in 1..Len(PathOrder)}

PathIndex(path) == CHOOSE i \in 1..Len(PathOrder) : PathOrder[i] = path

JsonPaths == {"package.json", "backend/package.json"}

NodeModulesPaths == {"node_modules/lib/index.js"}

Snippets ==
    {"ipcMain.", "express()", "jwt.sign", "let appData =", "req.user",
     "new sqlite3.Database", "fs.writeFile", ".listen(3000)",
     "process.env.PORT", "'/health'", "cors()"}

Packages ==
    {"electron", "@tauri-apps/api", "@tauri-apps/cli", "nw",
     "express", "passport", "sqlite3", "cors"}

DevPackages == {"electron", "@tauri-apps/cli", "nw"}

NoJson == [ok |-> FALSE, hasDeps |-> FALSE, deps |-> {}, hasDev |-> FALSE, dev |-> {}]

SnippetSets == {s \in SUBSET Snippets : Cardinality(s) <= MaxFeatures}

DepSets == {s \in SUBSET Packages : Cardinality(s) <= MaxFeatures}

DevSets == {s \in SUBSET DevPackages : Cardinality(s) <= MaxFeatures}

JsonValues ==
    {NoJson} \cup
    {[ok |-> TRUE, hasDeps |-> hd, deps |-> d, hasDev |-> hv, dev |-> v] :
        hd \in BOOLEAN, d \in DepSets, hv \in BOOLEAN, v \in DevSets}

WellFormedJson(j) ==
    /\ (~j.hasDeps => j.deps = {})
    /\ (~j.hasDev => j.dev = {})

(* A manifest of a web application that already declares a server         *)
(* framework, an authentication package and the CORS middleware.          *)
WebAppManifest ==
    [path |-> "package.json", snippets |-> {},
     json |-> [ok |-> TRUE, hasDeps |-> TRUE, deps |-> {"express", "passport", "cors"},
               hasDev |-> TRUE, dev |-> {}]]

(* The size of a file list: the snippets and packages it holds on top of  *)
(* the stock web-application manifest.                                    *)
FileSize(f) ==
    IF f = WebAppManifest THEN 0
    ELSE Cardinality(f.snippets) + Cardinality(f.json.deps) + Cardinality(f.json.dev)

RECURSIVE ListSize(_)
ListSize(fs) == IF fs = <<>> THEN 0 ELSE FileSize(Head(fs)) + ListSize(Tail(fs))

LastIndex(fs) == IF fs = <<>> THEN 0 ELSE PathIndex(fs[Len(fs)].path)

----------------------------------------------------------------------------
(* Regular expressions of the scorer, each as the set of snippets it matches *)

IPCPattern == {"ipcMain.", "ipcRenderer.", "ipc."}

ServerPattern == {"express()", "new Fastify", "new Hono"}

AuthPattern == {"passport.authenticate", "jwt.sign", "bcrypt.hash"}

GlobalStatePattern == {"let appData =", "let userData:"}

UserScopePattern == {"userId", "user_id", "req.user"}

SqlitePattern == {"new sqlite3.Database"}

FsWritePattern == {"fs.writeFile", "fs.writeFileSync"}

ListenPattern == {".listen(3000)", ".listen(8080)"}

EnvPortPattern == {"process.env.PORT"}

HealthPattern == {"'/health'", "'/healthz'"}

CorsPattern == {"cors()"}

Test(regex, text) == regex \cap text # {}

----------------------------------------------------------------------------
(* Manifest lookup and parsing *)

NullPkg == [isNull |-> TRUE, hasDeps |-> FALSE, deps |-> {}, hasDev |-> FALSE, dev |-> {}]

JSONparse(content) ==
    [isNull |-> FALSE, hasDeps |-> content.hasDeps, deps |-> content.deps,
     hasDev |-> content.hasDev, dev |-> content.dev]

(* Variant: the first file named package.json in any directory is taken   *)
(* as the manifest.                                                       *)
FindManifest_AnyDirectory(files) ==
    LET idx == {i \in 1..Len(files) : files[i].path \in JsonPaths}
    IN  IF idx = {} THEN 0 ELSE CHOOSE i \in idx : \A j \in idx : i <= j

FindManifest(files) ==
    LET idx == {i \in 1..Len(files) : files[i].path = ManifestPath}
    IN  IF idx = {} THEN 0 ELSE CHOOSE i \in idx : \A j \in idx : i <= j

(* Variant: the collections are read without optional chaining, so a      *)
(* parsed manifest without a dependencies collection raises a TypeError.  *)
ScoringThrows_NoOptionalChaining(files) ==
    LET i == FindManifest(files)
    IN  i # 0 /\ (~files[i].json.ok \/ ~files[i].json.hasDeps \/ ~files[i].json.hasDev)

ScoringThrows(files) ==
    LET i == FindManifest(files)
    IN  i # 0 /\ ~files[i].json.ok

ParsedManifest(files) ==
    LET i == FindManifest(files)
    IN  IF i = 0 THEN NullPkg ELSE JSONparse(files[i].json)

Dep(pkg, name) == ~pkg.isNull /\ pkg.hasDeps /\ name \in pkg.deps

DevDep(pkg, name) == ~pkg.isNull /\ pkg.hasDev /\ name \in pkg.dev

FilesOf(files) == {files[i] : i \in 1..Len(files)}

----------------------------------------------------------------------------
(* Detection predicates *)

DesktopFrameworkNames == <<"electron", "tauri", "nwjs">>

desktopFrameworks(pkg) ==
    [electron |-> Dep(pkg, "electron") \/ DevDep(pkg, "electron"),
     tauri    |-> Dep(pkg, "@tauri-apps/api") \/ Dep(pkg, "@tauri-apps/cli"),
     nwjs     |-> Dep(pkg, "nw") \/ DevDep(pkg, "nw")]

detectedFramework(pkg) ==
    LET found == {k \in 1..Len(DesktopFrameworkNames) :
                     desktopFrameworks(pkg)[DesktopFrameworkNames[k]]}
    IN  IF found = {} THEN ""
        ELSE DesktopFrameworkNames[CHOOSE k \in found : \A j \in found : k <= j]

hasIPC(files) == \E f \in FilesOf(files) : Test(IPCPattern, f.snippets)

hasHttpServer(pkg, files) ==
    \/ Dep(pkg, "express")
    \/ Dep(pkg, "fastify")
    \/ Dep(pkg, "koa")
    \/ Dep(pkg, "@hapi/hapi")
    \/ Dep(pkg, "hono")
    \/ \E f \in FilesOf(files) : Test(ServerPattern, f.snippets)

hasAuth(pkg, files) ==
    \/ Dep(pkg, "passport")
    \/ Dep(pkg, "jsonwebtoken")
    \/ Dep(pkg, "express-session")
    \/ Dep(pkg, "next-auth")
    \/ \E f \in FilesOf(files) : Test(AuthPattern, f.snippets)

hasSingleUserState(files) ==
    \E f \in FilesOf(files) : (/\ Test(GlobalStatePattern, f.snippets)
                               /\ ~Test(UserScopePattern, f.snippets))

hasSQLite(pkg, files) ==
    \/ Dep(pkg, "sqlite3")
    \/ Dep(pkg, "better-sqlite3")
    \/ \E f \in FilesOf(files) : Test(SqlitePattern, f.snippets)

(* Variant: a filesystem write counts in any file, dependency directories *)
(* included.                                                              *)
hasFileStorage_AnyPath(files) ==
    \E f \in FilesOf(files) : Test(FsWritePattern, f.snippets)

hasFileStorage(files) ==
    \E f \in FilesOf(files) : (/\ Test(FsWritePattern, f.snippets)
                               /\ f.path \notin NodeModulesPaths)

(* Variant: an environment port read in any file suppresses the finding. *)
hasHardcodedPort_AcrossFiles(files) ==
    /\ \E f \in FilesOf(files) : Test(ListenPattern, f.snippets)
    /\ ~\E f \in FilesOf(files) : Test(EnvPortPattern, f.snippets)

hasHardcodedPort(files) ==
    \E f \in FilesOf(files) : (/\ Test(ListenPattern, f.snippets)
                               /\ ~Test(EnvPortPattern, f.snippets))

hasHealthCheck(files) == \E f \in FilesOf(files) : Test(HealthPattern, f.snippets)

hasCORS(pkg, files) ==
    \/ Dep(pkg, "cors")
    \/ \E f \in FilesOf(files) : Test(CorsPattern, f.snippets)

----------------------------------------------------------------------------
(* The rule evaluator: one operator per rule, applied in the source's order *)
(* to the running [score, issues].                                          *)

Issue(category, impact, description, blocker) ==
    [category |-> category, impact |-> impact,
     description |-> description, blocker |-> blocker]

StartAcc == [score |-> 100, issues |-> <<>>]

(* Variant: the IPC rule pushes one issue for every file that matches,    *)
(* instead of one issue for the whole list.                               *)
RuleIPC_PerFile(acc, pkg, files) ==
    LET hits == {i \in 1..Len(files) : Test(IPCPattern, files[i].snippets)}
        n == Cardinality(hits)
        s == acc.score - 50 * n
    IN  [score |-> s,
         issues |-> acc.issues \o
             [k \in 1..n |->
                 Issue("communication", 50,
                       "IPC (Inter-Process Communication) detected. Web apps use HTTP, not IPC.",
                       s < 30)]]

(* Variant: the IPC rule marks its issue a blocker at a running score of  *)
(* 50 or less.                                                            *)
RuleIPC_BlockerAt50(acc, pkg, files) ==
    IF hasIPC(files)
    THEN LET s == acc.score - 50
         IN  [score |-> s,
              issues |-> Append(acc.issues,
                  Issue("communication", 50,
                        "IPC (Inter-Process Communication) detected. Web apps use HTTP, not IPC.",
                        s <= 50))]
    ELSE acc

RuleIPC(acc, pkg, files) ==
    IF hasIPC(files)
    THEN LET s == acc.score - 50
         IN  [score |-> s,
              issues |-> Append(acc.issues,
                  Issue("communication", 50,
                        "IPC (Inter-Process Communication) detected. Web apps use HTTP, not IPC.",
                        s < 30))]
    ELSE acc

(* Variant: the blocker flag is taken from the score before the deduction. *)
RuleNoHttpServer_BlockerBeforeDeduct(acc, pkg, files) ==
    IF ~hasHttpServer(pkg, files)
    THEN [score |-> acc.score - 40,
          issues |-> Append(acc.issues,
              Issue("infrastructure", 40,
                    "No HTTP server framework detected. Azure App Service requires HTTP server.",
                    acc.score < 30))]
    ELSE acc

RuleNoHttpServer(acc, pkg, files) ==
    IF ~hasHttpServer(pkg, files)
    THEN LET s == acc.score - 40
         IN  [score |-> s,
              issues |-> Append(acc.issues,
                  Issue("infrastructure", 40,
                        "No HTTP server framework detected. Azure App Service requires HTTP server.",
                        s < 30))]
    ELSE acc

(* Variant: the rule is not gated on the web-server flag. *)
RuleNoAuth_Ungated(acc, pkg, files) ==
    IF ~hasAuth(pkg, files)
    THEN [score |-> acc.score - 30,
          issues |-> Append(acc.issues,
              Issue("security", 30,
                    "No authentication system detected. Web apps need user authentication.",
                    FALSE))]
    ELSE acc

RuleNoAuth(acc, pkg, files) ==
    IF ~hasAuth(pkg, files) /\ hasHttpServer(pkg, files)
    THEN [score |-> acc.score - 30,
          issues |-> Append(acc.issues,
              Issue("security", 30,
                    "No authentication system detected. Web apps need user authentication.",
                    FALSE))]
    ELSE acc

(* Variant: the single-user-state rule adds its weight instead of          *)
(* subtracting it.                                                         *)
RuleSingleUserState_SignSlip(acc, pkg, files) ==
    IF hasSingleUserState(files)
    THEN [score |-> acc.score + 25,
          issues |-> Append(acc.issues,
              Issue("architecture", 25,
                    "Single-user global state detected. Web apps need multi-user isolation.",
                    FALSE))]
    ELSE acc

RuleSingleUserState(acc, pkg, files) ==
    IF hasSingleUserState(files)
    THEN [score |-> acc.score - 25,
          issues |-> Append(acc.issues,
              Issue("architecture", 25,
                    "Single-user global state detected. Web apps need multi-user isolation.",
                    FALSE))]
    ELSE acc

(* Variant: the deduction and the recorded impact differ. *)
RuleSQLite_ImpactMismatch(acc, pkg, files) ==
    IF hasSQLite(pkg, files)
    THEN [score |-> acc.score - 15,
          issues |-> Append(acc.issues,
              Issue("database", 10,
                    "SQLite database detected. Azure needs cloud database (SQL, PostgreSQL, etc.).",
                    FALSE))]
    ELSE acc

RuleSQLite(acc, pkg, files) ==
    IF hasSQLite(pkg, files)
    THEN [score |-> acc.score - 15,
          issues |-> Append(acc.issues,
              Issue("database", 15,
                    "SQLite database detected. Azure needs cloud database (SQL, PostgreSQL, etc.).",
                    FALSE))]
    ELSE acc

(* Variant: the file-storage rule weighs 20 instead of 15. *)
RuleFileStorage_Weight20(acc, pkg, files) ==
    IF hasFileStorage(files)
    THEN [score |-> acc.score - 20,
          issues |-> Append(acc.issues,
              Issue("storage", 20,
                    "Local file storage detected. Azure needs Blob Storage for persistence.",
                    FALSE))]
    ELSE acc

RuleFileStorage(acc, pkg, files) ==
    IF hasFileStorage(files)
    THEN [score |-> acc.score - 15,
          issues |-> Append(acc.issues,
              Issue("storage", 15,
                    "Local file storage detected. Azure needs Blob Storage for persistence.",
                    FALSE))]
    ELSE acc

RuleHardcodedPort(acc, pkg, files) ==
    IF hasHardcodedPort(files) /\ hasHttpServer(pkg, files)
    THEN [score |-> acc.score - 10,
          issues |-> Append(acc.issues,
              Issue("config", 10,
                    "Hardcoded port detected. Azure requires process.env.PORT.",
                    FALSE))]
    ELSE acc

(* Variant: the health-check rule is not gated on a detected HTTP server. *)
RuleNoHealthCheck_Ungated(acc, pkg, files) ==
    IF ~hasHealthCheck(files)
    THEN [score |-> acc.score - 10,
          issues |-> Append(acc.issues,
              Issue("monitoring", 10,
                    "No health check endpoint. Azure needs /health for monitoring.",
                    FALSE))]
    ELSE acc

RuleNoHealthCheck(acc, pkg, files) ==
    IF ~hasHealthCheck(files) /\ hasHttpServer(pkg, files)
    THEN [score |-> acc.score - 10,
          issues |-> Append(acc.issues,
              Issue("monitoring", 10,
                    "No health check endpoint. Azure needs /health for monitoring.",
                    FALSE))]
    ELSE acc

(* Variant: the CORS rule weighs 10 instead of 5. *)
RuleNoCORS_Weight10(acc, pkg, files) ==
    IF ~hasCORS(pkg, files) /\ hasHttpServer(pkg, files)
    THEN [score |-> acc.score - 10,
          issues |-> Append(acc.issues,
              Issue("config", 10,
                    "No CORS configuration detected. May be needed for frontend.",
                    FALSE))]
    ELSE acc

(* Variant: the CORS rule looks for CORS in the file contents only and    *)
(* ignores the manifest.                                                  *)
RuleNoCORS_ContentOnly(acc, pkg, files) ==
    IF ~(\E f \in FilesOf(files) : Test(CorsPattern, f.snippets))
       /\ hasHttpServer(pkg, files)
    THEN [score |-> acc.score - 5,
          issues |-> Append(acc.issues,
              Issue("config", 5,
                    "No CORS configuration detected. May be needed for frontend.",
                    FALSE))]
    ELSE acc

RuleNoCORS(acc, pkg, files) ==
    IF ~hasCORS(pkg, files) /\ hasHttpServer(pkg, files)
    THEN [score |-> acc.score - 5,
          issues |-> Append(acc.issues,
              Issue("config", 5,
                    "No CORS configuration detected. May be needed for frontend.",
                    FALSE))]
    ELSE acc

(* Variant: the file-storage rule is evaluated before the SQLite rule. *)
Evaluate_StorageBeforeDatabase(acc, pkg, files) ==
    LET a1 == RuleIPC(acc, pkg, files)
        a2 == RuleNoHttpServer(a1, pkg, files)
        a3 == RuleNoAuth(a2, pkg, files)
        a4 == RuleSingleUserState(a3, pkg, files)
        a5 == RuleFileStorage(a4, pkg, files)
        a6 == RuleSQLite(a5, pkg, files)
        a7 == RuleHardcodedPort(a6, pkg, files)
        a8 == RuleNoHealthCheck(a7, pkg, files)
    IN  RuleNoCORS(a8, pkg, files)

Evaluate(acc, pkg, files) ==
    LET a1 == RuleIPC(acc, pkg, files)
        a2 == RuleNoHttpServer(a1, pkg, files)
        a3 == RuleNoAuth(a2, pkg, files)
        a4 == RuleSingleUserState(a3, pkg, files)
        a5 == RuleSQLite(a4, pkg, files)
        a6 == RuleFileStorage(a5, pkg, files)
        a7 == RuleHardcodedPort(a6, pkg, files)
        a8 == RuleNoHealthCheck(a7, pkg, files)
    IN  RuleNoCORS(a8, pkg, files)

----------------------------------------------------------------------------
(* Result synthesis *)

(* Variant: the final score is not clamped. *)
ClampScore_NoClamp(s) == s

ClampScore(s) == IF s > 0 THEN s ELSE 0

(* Variant: strict comparison at the threshold. *)
CanPort_Strict(score) == score > 50

CanPort(score) == score >= 50

(* Variant: the lower threshold is inclusive on the BLOCKING side. *)
SeverityOf_Inclusive30(score) ==
    IF score <= 30 THEN "BLOCKING" ELSE IF score < 50 THEN "WARNING" ELSE "OK"

SeverityOf(score) ==
    IF score < 30 THEN "BLOCKING" ELSE IF score < 50 THEN "WARNING" ELSE "OK"

Descriptions(issues) == [i \in 1..Len(issues) |-> issues[i].description]

(* The narrative strings are records: the template that was used and the   *)
(* values interpolated into it.  statesScore tells whether the text        *)
(* carries the "(Score: n/100)" header, comparison holds the hour ranges   *)
(* of a "Porting + fixing" versus "Rebuilding fresh" estimate, if the text *)
(* has one.                                                                *)
(* Variant: the blocking template lists every issue, not only blockers. *)
Recommendation_ListsAll(score, issues) ==
    IF score < 30
    THEN [template |-> "CANNOT PORT", score |-> score, framework |-> "",
          listed |-> Descriptions(issues),
          directive |-> "Build a new Azure-native web application from scratch.",
          hoursLo |-> 0, hoursHi |-> 0,
          statesScore |-> TRUE, comparison |-> <<>>]
    ELSE IF score < 50
    THEN [template |-> "HIGH EFFORT REQUIRED", score |-> score, framework |-> "",
          listed |-> Descriptions(issues),
          directive |-> "Consider: Is it worth the effort to port, or faster to rebuild?",
          hoursLo |-> 0, hoursHi |-> 0,
          statesScore |-> TRUE, comparison |-> <<>>]
    ELSE [template |-> "CAN PORT", score |-> score, framework |-> "",
          listed |-> Descriptions(issues),
          directive |-> "The porter will handle most changes automatically.",
          hoursLo |-> Len(issues) * 2, hoursHi |-> Len(issues) * 4,
          statesScore |-> TRUE, comparison |-> <<>>]

Recommendation(score, issues) ==
    IF score < 30
    THEN [template |-> "CANNOT PORT", score |-> score, framework |-> "",
          listed |-> Descriptions(SelectSeq(issues, LAMBDA i : i.blocker)),
          directive |-> "Build a new Azure-native web application from scratch.",
          hoursLo |-> 0, hoursHi |-> 0,
          statesScore |-> TRUE, comparison |-> <<>>]
    ELSE IF score < 50
    THEN [template |-> "HIGH EFFORT REQUIRED", score |-> score, framework |-> "",
          listed |-> Descriptions(issues),
          directive |-> "Consider: Is it worth the effort to port, or faster to rebuild?",
          hoursLo |-> 0, hoursHi |-> 0,
          statesScore |-> TRUE, comparison |-> <<>>]
    ELSE [template |-> "CAN PORT", score |-> score, framework |-> "",
          listed |-> Descriptions(issues),
          directive |-> "The porter will handle most changes automatically.",
          hoursLo |-> Len(issues) * 2, hoursHi |-> Len(issues) * 4,
          statesScore |-> TRUE, comparison |-> <<>>]

(* Variant: the upper end of the OK-tier range is three hours per issue. *)
EstimatedEffort_ThreePerIssue(score, issues) ==
    IF score < 30
    THEN [text |-> "Cannot automate - Complete rewrite required (40-80 hours)",
          hoursLo |-> 40, hoursHi |-> 80]
    ELSE IF score < 50
    THEN [text |-> "Porter helps, but 30-50 hours manual work required",
          hoursLo |-> 30, hoursHi |-> 50]
    ELSE [text |-> "Porter automates most changes - hours manual work",
          hoursLo |-> Len(issues) * 2, hoursHi |-> Len(issues) * 3]

EstimatedEffort(score, issues) ==
    IF score < 30
    THEN [text |-> "Cannot automate - Complete rewrite required (40-80 hours)",
          hoursLo |-> 40, hoursHi |-> 80]
    ELSE IF score < 50
    THEN [text |-> "Porter helps, but 30-50 hours manual work required",
          hoursLo |-> 30, hoursHi |-> 50]
    ELSE [text |-> "Porter automates most changes - hours manual work",
          hoursLo |-> Len(issues) * 2, hoursHi |-> Len(issues) * 4]

DesktopDescription(fw) ==
    "Desktop application framework detected (" \o fw \o
    "). Desktop apps cannot run on Azure App Service web platform."

(* Variant: the instant-fail text carries no effort comparison. *)
InstantFailResult_NoEstimate(fw) ==
    [score |-> 0,
     canPort |-> FALSE,
     severity |-> "BLOCKING",
     issues |-> <<Issue("architecture", 100, DesktopDescription(fw), TRUE)>>,
     recommendation |->
         [template |-> "CANNOT PORT: desktop application", score |-> 0,
          framework |-> fw, listed |-> <<>>,
          directive |-> "Build a new Azure-native web application from scratch instead of porting.",
          hoursLo |-> 0, hoursHi |-> 0,
          statesScore |-> FALSE,
          comparison |-> <<>>],
     estimatedEffort |->
         [text |-> "Cannot be automated - Complete rewrite required (40-60 hours)",
          hoursLo |-> 40, hoursHi |-> 60]]

InstantFailResult(fw) ==
    [score |-> 0,
     canPort |-> FALSE,
     severity |-> "BLOCKING",
     issues |-> <<Issue("architecture", 100, DesktopDescription(fw), TRUE)>>,
     recommendation |->
         [template |-> "CANNOT PORT: desktop application", score |-> 0,
          framework |-> fw, listed |-> <<>>,
          directive |-> "Build a new Azure-native web application from scratch instead of porting.",
          hoursLo |-> 0, hoursHi |-> 0,
          statesScore |-> FALSE,
          comparison |-> <<<<60, 100>>, <<40, 60>>>>],
     estimatedEffort |->
         [text |-> "Cannot be automated - Complete rewrite required (40-60 hours)",
          hoursLo |-> 40, hoursHi |-> 60]]

FinalResult(acc) ==
    LET score == ClampScore(acc.score)
    IN  [score |-> score,
         canPort |-> CanPort(score),
         severity |-> SeverityOf(score),
         issues |-> acc.issues,
         recommendation |-> Recommendation(score, acc.issues),
         estimatedEffort |-> EstimatedEffort(score, acc.issues)]

(* Variant: the instant-fail branch pushes its issue but does not return,  *)
(* so the remaining rules run on top of it.                               *)
ScoreWith_NoEarlyReturn(pkg, files) ==
    IF detectedFramework(pkg) # ""
    THEN FinalResult(Evaluate(
             [score |-> 0,
              issues |-> InstantFailResult(detectedFramework(pkg)).issues],
             pkg, files))
    ELSE FinalResult(Evaluate(StartAcc, pkg, files))

ScoreWith(pkg, files) ==
    IF detectedFramework(pkg) # ""
    THEN InstantFailResult(detectedFramework(pkg))
    ELSE FinalResult(Evaluate(StartAcc, pkg, files))

calculatePortabilityScore(files) == ScoreWith(ParsedManifest(files), files)

----------------------------------------------------------------------------
(* The state machine: the fetch layer hands over a file list; a scoring    *)
(* call returns a PortabilityResult or throws; an analysis stores the      *)
(* checker's list and a patch request runs the porter on it.               *)

NoResult ==
    [score |-> 0, canPort |-> FALSE, severity |-> "", issues |-> <<>>,
     recommendation |-> [template |-> "", score |-> 0, framework |-> "",
                         listed |-> <<>>, directive |-> "", hoursLo |-> 0, hoursHi |-> 0,
                         statesScore |-> FALSE, comparison |-> <<>>],
     estimatedEffort |-> [text |-> "", hoursLo |-> 0, hoursHi |-> 0]]

----------------------------------------------------------------------------
(* The readiness checker (checkers/azure.ts) *)

(* An entry of the checker's list.  The message is the literal text of    *)
(* its template or, for a portability issue, the tag and the issue's      *)
(* description; score is the score interpolated into a headline.          *)
ReadinessIssue(category, severity, text, tag, impact, score) ==
    [category |-> category, severity |-> severity, text |-> text,
     tag |-> tag, impact |-> impact, score |-> score]

PortabilityEntry(issue) ==
    ReadinessIssue("runtime", "error", issue.description,
                   IF issue.blocker THEN "BLOCKER" ELSE "CRITICAL",
                   issue.impact, 0)

addPortabilityIssues(portability, filterBlockers) ==
    LET kept == IF filterBlockers
                THEN SelectSeq(portability.issues, LAMBDA i : i.blocker)
                ELSE portability.issues
    IN  [k \in 1..Len(kept) |-> PortabilityEntry(kept[k])]

AzureConfigPaths == {"azure.yaml", ".azure/config"}

(* The manifests of the universe declare no scripts. *)
hasStartScript(files) == FALSE

StandardChecks(files) ==
    LET i == FindManifest(files)
        hasAzureConfig == \E f \in FilesOf(files) : f.path \in AzureConfigPaths
        hasSQLiteText == i # 0 /\ "sqlite3" \in files[i].json.deps \cup files[i].json.dev
        hasLocalStorage == \E f \in FilesOf(files) : "fs.writeFile" \in f.snippets
        hasDotEnv == \E f \in FilesOf(files) : f.path = ".env"
    IN  (IF ~hasAzureConfig
         THEN <<ReadinessIssue("config", "error",
                    "Missing Azure deployment configuration", "", 0, 0)>>
         ELSE <<>>)
        \o (IF hasSQLiteText
            THEN <<ReadinessIssue("database", "error",
                       "SQLite database will not persist in Azure App Service (ephemeral file system)",
                       "", 0, 0)>>
            ELSE <<>>)
        \o (IF hasLocalStorage
            THEN <<ReadinessIssue("storage", "error",
                       "Local file storage will not persist in Azure App Service (ephemeral file system)",
                       "", 0, 0)>>
            ELSE <<>>)
        \o (IF hasDotEnv
            THEN <<ReadinessIssue("config", "warning",
                       ".env file will not be deployed to Azure", "", 0, 0)>>
            ELSE <<>>)
        \o (IF ~hasStartScript(files)
            THEN <<ReadinessIssue("config", "error",
                       "Missing start script in package.json", "", 0, 0)>>
            ELSE <<>>)

(* Variant: the low-score branch does not return, so the standard checks  *)
(* run after it.                                                          *)
checkAzureReadiness_NoReturnOnLowScore(files) ==
    LET portability == calculatePortabilityScore(files)
    IN  IF portability.score < 30
        THEN <<ReadinessIssue("runtime", "error", "CANNOT PORT: Portability Score",
                              "", 0, portability.score)>>
             \o addPortabilityIssues(portability, TRUE)
        ELSE IF portability.score < 50
        THEN <<ReadinessIssue("runtime", "error",
                              "NOT RECOMMENDED TO PORT: Portability Score",
                              "", 0, portability.score)>>
             \o addPortabilityIssues(portability, FALSE)
             \o StandardChecks(files)
        ELSE StandardChecks(files)

checkAzureReadiness(files) ==
    LET portability == calculatePortabilityScore(files)
    IN  IF portability.score < 30
        THEN <<ReadinessIssue("runtime", "error", "CANNOT PORT: Portability Score",
                              "", 0, portability.score)>>
             \o addPortabilityIssues(portability, TRUE)
        ELSE IF portability.score < 50
        THEN <<ReadinessIssue("runtime", "error",
                              "NOT RECOMMENDED TO PORT: Portability Score",
                              "", 0, portability.score)>>
             \o addPortabilityIssues(portability, FALSE)
        ELSE StandardChecks(files)

----------------------------------------------------------------------------
(* The porter (porters/azure.ts) and the patch generator                  *)
(* (services/patcher.ts)                                                  *)

(* message.includes(needle), for the messages the checker produces. *)
MessageIncludes ==
    {<<"Missing start script in package.json", "start script">>,
     <<"SQLite database will not persist in Azure App Service (ephemeral file system)", "SQLite">>,
     <<"SQLite database detected. Azure needs cloud database (SQL, PostgreSQL, etc.).", "SQLite">>,
     <<"Local file storage will not persist in Azure App Service (ephemeral file system)", "file storage">>,
     <<"Local file storage detected. Azure needs Blob Storage for persistence.", "file storage">>,
     <<"No health check endpoint. Azure needs /health for monitoring.", "health check endpoint">>}

Mentions(issues, needle) ==
    \E k \in 1..Len(issues) : <<issues[k].text, needle>> \in MessageIncludes

PortedFile(path, action) == [path |-> path, action |-> action]

(* The files a porting run emits, in the order the fixes push them.  No   *)
(* file of the universe is a route file, a database module, a .gitignore  *)
(* or a secret file, so the fixes that rewrite such files emit nothing.   *)
PortedFiles(files, issues) ==
    LET i == FindManifest(files)
        hasSQLiteNote == Mentions(issues, "SQLite")
        hasLocalStorageNote == Mentions(issues, "file storage")
        fsFiles == SelectSeq(files, LAMBDA f : "fs.writeFile" \in f.snippets)
    IN  (IF i = 0 \/ Mentions(issues, "start script") \/ hasSQLiteNote
            \/ hasLocalStorageNote
         THEN <<PortedFile("package.json", IF i = 0 THEN "create" ELSE "modify")>>
         ELSE <<>>)
        \o (IF ~\E f \in FilesOf(files) : f.path \in AzureConfigPaths
            THEN <<PortedFile("azure.yaml", "create")>>
            ELSE <<>>)
        \o (IF hasSQLiteNote THEN <<PortedFile("src/database.ts", "create")>> ELSE <<>>)
        \o (IF hasLocalStorageNote
            THEN [k \in 1..Len(fsFiles) |-> PortedFile(fsFiles[k].path, "modify")]
                 \o <<PortedFile("src/storage.ts", "create")>>
            ELSE <<>>)
        \o <<PortedFile(".gitignore", "create"),
             PortedFile(".env.example", "create"),
             PortedFile("AZURE_DEPLOYMENT.md", "create")>>

(* Variant: the porter rejects every repository that cannot be ported     *)
(* cleanly (score below 50).                                              *)
portToAzure_RejectBelow50(files, issues) ==
    LET portability == calculatePortabilityScore(files)
    IN  IF portability.score < 50
        THEN [success |-> FALSE, files |-> <<>>,
              summary |-> "cannot generate a functional patch",
              portability |-> portability]
        ELSE [success |-> TRUE, files |-> PortedFiles(files, issues),
              summary |-> "Successfully ported application to Azure App Service.",
              portability |-> portability]

portToAzure(files, issues) ==
    LET portability == calculatePortabilityScore(files)
    IN  IF portability.score < 30
        THEN [success |-> FALSE, files |-> <<>>,
              summary |-> "cannot generate a functional patch",
              portability |-> portability]
        ELSE [success |-> TRUE, files |-> PortedFiles(files, issues),
              summary |-> "Successfully ported application to Azure App Service.",
              portability |-> portability]

(* The console.warn calls of a porting run. *)
PorterWarnings(files) ==
    LET portability == calculatePortabilityScore(files)
    IN  IF portability.score >= 30 /\ portability.score < 50
        THEN <<[text |-> "Low portability score - high manual effort required",
                score |-> portability.score]>>
        ELSE <<>>

(* One diff header per ported file. *)
generateGitPatch(portingResult) ==
    [k \in 1..Len(portingResult.files) |->
        [path |-> portingResult.files[k].path,
         header |-> IF portingResult.files[k].action = "create" THEN "new file mode 100644"
                    ELSE IF portingResult.files[k].action = "modify" THEN "--- a/"
                    ELSE "deleted file mode 100644"]]

PatchResult(portingResult) ==
    IF ~portingResult.success
    THEN [success |-> FALSE, canPort |-> FALSE, hasPatch |-> FALSE, patch |-> <<>>,
          summary |-> portingResult.summary,
          portability |-> portingResult.portability]
    ELSE [success |-> TRUE, canPort |-> TRUE, hasPatch |-> TRUE,
          patch |-> generateGitPatch(portingResult),
          summary |-> portingResult.summary,
          portability |-> portingResult.portability]

NoPorting ==
    [success |-> FALSE, files |-> <<>>, summary |-> "", portability |-> NoResult]

NoPatch ==
    [success |-> FALSE, canPort |-> FALSE, hasPatch |-> FALSE, patch |-> <<>>,
     summary |-> "", portability |-> NoResult]

CandidateFiles(path) ==
    IF path \in JsonPaths
    THEN {[path |-> path, snippets |-> {}, json |-> j] :
             j \in {x \in JsonValues :
                       /\ WellFormedJson(x)
                       /\ (path # ManifestPath /\ x.ok) => (x.hasDeps /\ x.hasDev)}}
         \cup {f \in {WebAppManifest} : f.path = path}
    ELSE {[path |-> path, snippets |-> s, json |-> NoJson] : s \in SnippetSets}

(* The candidate files of each path that fit into a remaining budget,     *)
(* tabulated once.                                                        *)
CandidateTable ==
    [path \in Paths |->
        [room \in 0..MaxFeatures |->
            {f \in CandidateFiles(path) : FileSize(f) <= room}]]

(* Concurrent scoring calls: each caller runs calculatePortabilityScore   *)
(* on its own list, one statement group at a time.                        *)
Callers == {"first", "second"}

(* The local variables of a call (score, issues, pkg) live in the call's  *)
(* own activation.                                                        *)
LocalsOf_ModuleLevel(c) == "first"

LocalsOf(c) == c

NoLocals == [c \in Callers |-> [score |-> 0, issues |-> <<>>, pkg |-> NullPkg]]

NoCalls ==
    [c \in Callers |-> [input |-> <<>>, step |-> "idle", result |-> NoResult]]

CodeFile(snippets) == [path |-> "src/index.js", snippets |-> snippets, json |-> NoJson]

ManifestFile(json) == [path |-> "package.json", snippets |-> {}, json |-> json]

(* The file lists the concurrent callers score. *)
CallInputs ==
    {<<>>,
     <<CodeFile({"ipcMain."})>>,
     <<CodeFile({"let appData =", "new sqlite3.Database", "fs.writeFile"})>>,
     <<WebAppManifest, CodeFile({".listen(3000)"})>>,
     <<ManifestFile([ok |-> TRUE, hasDeps |-> TRUE, deps |-> {"express"},
                     hasDev |-> TRUE, dev |-> {"electron"}]),
       CodeFile({"ipcMain."})>>,
     <<ManifestFile(NoJson)>>}

(* The rule blocks of the function body, in statement order. *)
RuleSteps ==
    <<"ipc", "server", "auth", "state", "sqlite", "storage", "port", "health", "cors">>

StepAfter(step) ==
    IF step = "desktop" THEN RuleSteps[1]
    ELSE LET k == CHOOSE n \in 1..Len(RuleSteps) : RuleSteps[n] = step
         IN  IF k = Len(RuleSteps) THEN "finish" ELSE RuleSteps[k + 1]

ApplyRule(step, acc, pkg, files) ==
    CASE step = "ipc" -> RuleIPC(acc, pkg, files)
      [] step = "server" -> RuleNoHttpServer(acc, pkg, files)
      [] step = "auth" -> RuleNoAuth(acc, pkg, files)
      [] step = "state" -> RuleSingleUserState(acc, pkg, files)
      [] step = "sqlite" -> RuleSQLite(acc, pkg, files)
      [] step = "storage" -> RuleFileStorage(acc, pkg, files)
      [] step = "port" -> RuleHardcodedPort(acc, pkg, files)
      [] step = "health" -> RuleNoHealthCheck(acc, pkg, files)
      [] step = "cors" -> RuleNoCORS(acc, pkg, files)

Init ==
    /\ repoFiles = <<>>
    /\ pc = "fetching"
    /\ result = NoResult
    /\ readiness = <<>>
    /\ porting = NoPorting
    /\ patch = NoPatch
    /\ console = <<>>
    /\ calls = NoCalls
    /\ locals = NoLocals

FetchFile ==
    /\ pc = "fetching"
    /\ Len(repoFiles) < MaxFiles
    /\ \E path \in Paths :
         /\ PathIndex(path) > LastIndex(repoFiles)
         /\ \E f \in CandidateTable[path][MaxFeatures - ListSize(repoFiles)] :
               repoFiles' = Append(repoFiles, f)
    /\ UNCHANGED <<pc, result, readiness, porting, patch, console, calls, locals>>

Score ==
    /\ pc = "fetching"
    /\ IF ScoringThrows(repoFiles)
       THEN pc' = "threw" /\ result' = NoResult
       ELSE pc' = "returned" /\ result' = calculatePortabilityScore(repoFiles)
    /\ UNCHANGED <<repoFiles, readiness, porting, patch, console, calls, locals>>

(* The analysis of a fetched repository: the checker's list is stored. *)
CheckAzureReadiness ==
    /\ pc = "fetching"
    /\ IF ScoringThrows(repoFiles)
       THEN pc' = "threw" /\ readiness' = <<>>
       ELSE pc' = "checked" /\ readiness' = checkAzureReadiness(repoFiles)
    /\ UNCHANGED <<repoFiles, result, porting, patch, console, calls, locals>>

(* A patch request for an analysed repository: the porter runs on the     *)
(* stored files and the stored issues, the patch is built from its result. *)
GeneratePatch ==
    /\ pc = "checked"
    /\ pc' = "patched"
    /\ porting' = portToAzure(repoFiles, readiness)
    /\ console' = console \o PorterWarnings(repoFiles)
    /\ patch' = PatchResult(porting')
    /\ UNCHANGED <<repoFiles, result, readiness, calls, locals>>

Next == FetchFile \/ Score \/ CheckAzureReadiness \/ GeneratePatch

Spec == Init /\ [][Next]_vars

----------------------------------------------------------------------------
(* The state machine of concurrent scoring calls *)

InitCalls ==
    /\ repoFiles = <<>>
    /\ pc = "idle"
    /\ result = NoResult
    /\ readiness = <<>>
    /\ porting = NoPorting
    /\ patch = NoPatch
    /\ console = <<>>
    /\ calls \in [Callers -> {[input |-> files, step |-> "start", result |-> NoResult] :
                                  files \in CallInputs}]
    /\ locals = NoLocals

pipelineVars == <<repoFiles, pc, result, readiness, porting, patch, console>>

(* let score = 100; const issues = []; find and parse the manifest. *)
CallStart(c) ==
    /\ calls[c].step = "start"
    /\ IF ScoringThrows(calls[c].input)
       THEN /\ calls' = [calls EXCEPT ![c].step = "threw"]
            /\ UNCHANGED locals
       ELSE /\ calls' = [calls EXCEPT ![c].step = "desktop"]
            /\ locals' = [locals EXCEPT ![LocalsOf(c)] =
                              [score |-> StartAcc.score, issues |-> StartAcc.issues,
                               pkg |-> ParsedManifest(calls[c].input)]]
    /\ UNCHANGED pipelineVars

(* The desktop-framework check with its early return. *)
CallDesktopCheck(c) ==
    /\ calls[c].step = "desktop"
    /\ LET fw == detectedFramework(locals[LocalsOf(c)].pkg)
       IN  IF fw # ""
           THEN calls' = [calls EXCEPT ![c].step = "returned",
                                       ![c].result = InstantFailResult(fw)]
           ELSE calls' = [calls EXCEPT ![c].step = StepAfter("desktop")]
    /\ UNCHANGED <<locals, pipelineVars>>

(* One rule block. *)
CallRule(c) ==
    /\ calls[c].step \in {RuleSteps[k] : k \in 1..Len(RuleSteps)}
    /\ LET mine == locals[LocalsOf(c)]
           acc == ApplyRule(calls[c].step,
                            [score |-> mine.score, issues |-> mine.issues],
                            mine.pkg, calls[c].input)
       IN  locals' = [locals EXCEPT ![LocalsOf(c)] =
                         [score |-> acc.score, issues |-> acc.issues, pkg |-> mine.pkg]]
    /\ calls' = [calls EXCEPT ![c].step = StepAfter(calls[c].step)]
    /\ UNCHANGED pipelineVars

(* Clamp, classify, build the narrative and return. *)
CallFinish(c) ==
    /\ calls[c].step = "finish"
    /\ LET mine == locals[LocalsOf(c)]
       IN  calls' = [calls EXCEPT
               ![c].step = "returned",
               ![c].result = FinalResult([score |-> mine.score, issues |-> mine.issues])]
    /\ UNCHANGED <<locals, pipelineVars>>

NextCalls ==
    \E c \in Callers :
        CallStart(c) \/ CallDesktopCheck(c) \/ CallRule(c) \/ CallFinish(c)

SpecCalls == InitCalls /\ [][NextCalls]_vars

----------------------------------------------------------------------------
(* Properties of the scoring result *)

Returned == pc = "returned"

(* A scoring call has ended, with a result or with an exception. *)
ScoringEnded == pc \in {"returned", "threw"}

Pkg == ParsedManifest(repoFiles)

InstantFailed == result.recommendation.template = "CANNOT PORT: desktop application"

RECURSIVE SumImpacts(_)
SumImpacts(issues) ==
    IF issues = <<>> THEN 0 ELSE Head(issues).impact + SumImpacts(Tail(issues))

(* C1: every returned score is an integer between 0 and 100, whatever     *)
(* combination of rules fired.                                             *)
C1_ScoreInRange == Returned => result.score \in 0..100

(* C1 witness: the deductions of the fired rules exceed 100 and the        *)
(* returned score is the clamped 0.                                        *)
C1_Witness ==
    /\ Returned
    /\ ~InstantFailed
    /\ SumImpacts(result.issues) > 100
    /\ result.score = 0

TemplateTier(template) ==
    CASE template = "CANNOT PORT: desktop application" -> "BLOCKING"
      [] template = "CANNOT PORT" -> "BLOCKING"
      [] template = "HIGH EFFORT REQUIRED" -> "WARNING"
      [] template = "CAN PORT" -> "OK"
      [] OTHER -> "none"

EffortTier(text) ==
    CASE text = "Cannot be automated - Complete rewrite required (40-60 hours)" -> "BLOCKING"
      [] text = "Cannot automate - Complete rewrite required (40-80 hours)" -> "BLOCKING"
      [] text = "Porter helps, but 30-50 hours manual work required" -> "WARNING"
      [] text = "Porter automates most changes - hours manual work" -> "OK"
      [] OTHER -> "none"

(* C2: in every returned result the severity is determined by the score    *)
(* alone (BLOCKING iff score < 30, WARNING iff 30 <= score < 50, OK iff     *)
(* score >= 50) and the recommendation and effort templates are those of   *)
(* that tier.                                                              *)
C2_SeverityFromScore ==
    Returned =>
        /\ (result.severity = "BLOCKING" <=> result.score < 30)
        /\ (result.severity = "WARNING" <=> (30 <= result.score /\ result.score < 50))
        /\ (result.severity = "OK" <=> result.score >= 50)
        /\ TemplateTier(result.recommendation.template) = result.severity
        /\ EffortTier(result.estimatedEffort.text) = result.severity

(* C2 witness: a result exactly on the lower threshold, classified WARNING. *)
C2_Witness ==
    /\ Returned
    /\ result.score = 30
    /\ result.severity = "WARNING"
    /\ result.recommendation.template = "HIGH EFFORT REQUIRED"

(* C3: canPort is true iff score >= 50, i.e. iff the severity is OK; it is  *)
(* false for every BLOCKING and WARNING result, the instant fail included.  *)
C3_CanPortIffScoreAtLeast50 ==
    Returned =>
        /\ (result.canPort <=> result.score >= 50)
        /\ (result.canPort <=> result.severity = "OK")
        /\ (InstantFailed => ~result.canPort)

(* C3 witness: a result exactly on the upper threshold, which can port.    *)
C3_Witness ==
    /\ Returned
    /\ result.score = 50
    /\ result.canPort

(* C4: when the desktop-framework rule fires the result is score 0,        *)
(* BLOCKING, canPort false, with exactly one issue (architecture, impact   *)
(* 100, blocker, naming the framework), whatever other rule conditions     *)
(* hold in the same input.                                                 *)
C4_InstantFailResult ==
    (Returned /\ detectedFramework(Pkg) # "") =>
        /\ result.score = 0
        /\ result.severity = "BLOCKING"
        /\ ~result.canPort
        /\ Len(result.issues) = 1
        /\ result.issues[1].category = "architecture"
        /\ result.issues[1].impact = 100
        /\ result.issues[1].blocker
        /\ result.issues[1].description = DesktopDescription(detectedFramework(Pkg))

(* C4 witness: a desktop framework in the manifest together with the IPC   *)
(* and the no-web-server conditions, which alone would deduct 90.          *)
C4_Witness ==
    /\ Returned
    /\ detectedFramework(Pkg) = "electron"
    /\ hasIPC(repoFiles)
    /\ ~hasHttpServer(Pkg, repoFiles)
    /\ Len(result.issues) = 1

ManifestPresent == FindManifest(repoFiles) # 0

ManifestJson == repoFiles[FindManifest(repoFiles)].json

DesktopPackages == {"electron", "@tauri-apps/api", "@tauri-apps/cli", "nw"}

(* C5: whenever the package of one of the three desktop frameworks is      *)
(* listed in the manifest's dependencies or in its devDependencies, the    *)
(* result is the score-0 instant-fail result.                              *)
C5_DesktopPackageInEitherMap ==
    (/\ Returned
     /\ ManifestPresent
     /\ DesktopPackages \cap (ManifestJson.deps \cup ManifestJson.dev) # {})
    => (/\ InstantFailed
        /\ result.score = 0
        /\ Len(result.issues) = 1)

(* C6: a manifest that does not parse never makes the scoring call fail:   *)
(* the call returns, and returns the result of the same file list scored   *)
(* with the manifest treated as absent.                                    *)
C6_MalformedManifestAsAbsent ==
    (/\ ScoringEnded
     /\ ManifestPresent
     /\ ~ManifestJson.ok)
    => (/\ pc = "returned"
        /\ result = ScoreWith(NullPkg, repoFiles))

WithEmptyCollections(files) ==
    [i \in 1..Len(files) |->
        IF files[i].json.ok
        THEN [files[i] EXCEPT !.json.hasDeps = TRUE, !.json.hasDev = TRUE]
        ELSE files[i]]

(* C7: a manifest that parses but lacks the dependencies and/or the        *)
(* devDependencies collection is never a fault: the call returns the       *)
(* result of the same input with the collection present and empty.         *)
C7_MissingCollectionAsEmpty ==
    (/\ ScoringEnded
     /\ ManifestPresent
     /\ ManifestJson.ok)
    => (/\ pc = "returned"
        /\ result = calculatePortabilityScore(WithEmptyCollections(repoFiles)))

(* C7 witness: a parsed manifest without a dependencies collection was     *)
(* scored, next to a file on which manifest-independent rules fire.        *)
C7_Witness ==
    /\ Returned
    /\ ManifestPresent
    /\ ManifestJson.ok
    /\ ~ManifestJson.hasDeps
    /\ ~ManifestJson.hasDev
    /\ Len(result.issues) >= 2

RunningScore(issues, k) == 100 - SumImpacts(SubSeq(issues, 1, k))

DynamicBlockerCategories == {"communication", "infrastructure"}

HasIssue(category) == \E k \in 1..Len(result.issues) : result.issues[k].category = category

WebOnlyCategories == {"security", "config", "monitoring"}

(* C9: the no-auth, hardcoded-port, no-health and no-CORS rules fire only  *)
(* when a web server was detected: a result with the infrastructure issue  *)
(* has none of their issues and its score carries none of their            *)
(* deductions.                                                             *)
C9_WebRulesNeedServer ==
    (Returned /\ ~InstantFailed) =>
        /\ (\E c \in WebOnlyCategories : HasIssue(c)) => hasHttpServer(Pkg, repoFiles)
        /\ HasIssue("infrastructure") =>
              /\ \A c \in WebOnlyCategories : ~HasIssue(c)
              /\ \A k \in 1..Len(result.issues) :
                    result.issues[k].category \in
                        {"communication", "infrastructure", "architecture", "database", "storage"}
              /\ LET raw == 100 - 40
                             - (IF hasIPC(repoFiles) THEN 50 ELSE 0)
                             - (IF hasSingleUserState(repoFiles) THEN 25 ELSE 0)
                             - (IF hasSQLite(Pkg, repoFiles) THEN 15 ELSE 0)
                             - (IF hasFileStorage(repoFiles) THEN 15 ELSE 0)
                 IN  result.score = IF raw > 0 THEN raw ELSE 0

(* C9 witness: no web server, and the conditions of the web-only rules     *)
(* (no auth, hardcoded port, no health route, no CORS) all hold.           *)
C9_Witness ==
    /\ Returned
    /\ HasIssue("infrastructure")
    /\ ~hasAuth(Pkg, repoFiles)
    /\ hasHardcodedPort(repoFiles)
    /\ ~hasHealthCheck(repoFiles)
    /\ ~hasCORS(Pkg, repoFiles)
    /\ result.score = 60

RuleWeight(issue) ==
    CASE issue.category = "communication" -> 50
      [] issue.category = "infrastructure" -> 40
      [] issue.category = "security" -> 30
      [] issue.category = "architecture" ->
            IF issue.description =
                 "Single-user global state detected. Web apps need multi-user isolation."
            THEN 25 ELSE 100
      [] issue.category = "database" -> 15
      [] issue.category = "storage" -> 15
      [] issue.category = "monitoring" -> 10
      [] issue.category = "config" ->
            IF issue.description = "Hardcoded port detected. Azure requires process.env.PORT."
            THEN 10 ELSE 5
      [] OTHER -> 0 - 1

(* C10: every issue's impact is the fixed weight of its rule, and the      *)
(* score is max(0, 100 - sum of the impacts of the result's issues).       *)
C10_AdditiveFixedWeights ==
    Returned =>
        /\ \A k \in 1..Len(result.issues) :
              result.issues[k].impact = RuleWeight(result.issues[k])
        /\ LET raw == 100 - SumImpacts(result.issues)
           IN  result.score = IF raw > 0 THEN raw ELSE 0

(* C10 witness: three rules fired, the embedded-SQL rule among them, and   *)
(* the score is still positive.                                            *)
C10_Witness ==
    /\ Returned
    /\ Len(result.issues) >= 3
    /\ HasIssue("database")
    /\ result.score > 0

(* The position of the rule that pushed an issue, in evaluation order: 0   *)
(* for the desktop-framework rule, 1..9 for the accumulating rules.         *)
RuleRank(issue) ==
    IF issue.category = "architecture" /\ issue.impact = 100 THEN 0
    ELSE IF issue.category = "communication" THEN 1
    ELSE IF issue.category = "infrastructure" THEN 2
    ELSE IF issue.category = "security" THEN 3
    ELSE IF issue.category = "architecture" /\ issue.impact = 25 THEN 4
    ELSE IF issue.category = "database" THEN 5
    ELSE IF issue.category = "storage" THEN 6
    ELSE IF issue.category = "config" /\ issue.impact = 10 THEN 7
    ELSE IF issue.category = "monitoring" THEN 8
    ELSE IF issue.category = "config" /\ issue.impact = 5 THEN 9
    ELSE 10

InRuleOrder(issues) ==
    \A i, j \in 1..Len(issues) : i < j => RuleRank(issues[i]) < RuleRank(issues[j])

(* Every ordering of the files of a list. *)
Reorderings(files) ==
    {[i \in 1..Len(files) |-> files[p[i]]] : p \in Permutations(1..Len(files))}

(* C11: the issues of every result are in the fixed rule evaluation order  *)
(* with at most one issue per rule, and this is so for every ordering of   *)
(* the files of the input.                                                 *)
C11_IssuesInRuleOrder ==
    Returned =>
        /\ InRuleOrder(result.issues)
        /\ \A files \in Reorderings(repoFiles) :
              InRuleOrder(calculatePortabilityScore(files).issues)

(* C11 witness: the file that triggers the later rule (SQLite use) comes   *)
(* before the file that triggers the earlier one (IPC) in the list.        *)
C11_Witness ==
    /\ Returned
    /\ Len(repoFiles) >= 2
    /\ \E i, j \in 1..Len(repoFiles) :
          /\ i < j
          /\ Test(SqlitePattern, repoFiles[i].snippets)
          /\ Test(IPCPattern, repoFiles[j].snippets)
    /\ \E a, b \in 1..Len(result.issues) :
          /\ a < b
          /\ result.issues[a].category = "communication"
          /\ result.issues[b].category = "database"

RanksOf(issues) == {RuleRank(issues[i]) : i \in 1..Len(issues)}

(* C12: the issues of a result never outnumber the rules: every issue      *)
(* belongs to one of the ten rules, no rule contributes two, the           *)
(* instant-fail result carries one issue and an accumulated result at most *)
(* nine.                                                                   *)
C12_IssueCountBounded ==
    Returned =>
        /\ Len(result.issues) <= 10
        /\ RanksOf(result.issues) \subseteq 0..9
        /\ Cardinality(RanksOf(result.issues)) = Len(result.issues)
        /\ InstantFailed => Len(result.issues) = 1
        /\ ~InstantFailed => Len(result.issues) <= 9

(* C12 witness: two files match the IPC pattern and account for a single   *)
(* IPC issue, next to the no-server issue.                                 *)
C12_Witness ==
    /\ Returned
    /\ Cardinality({i \in 1..Len(repoFiles) :
                       Test(IPCPattern, repoFiles[i].snippets)}) = 2
    /\ Len(result.issues) = 2
    /\ HasIssue("communication")

(* The rule conditions that hold of an input, each taken by itself         *)
(* (without the web-server gate of the rule that uses it).                 *)
Conditions(files) ==
    LET pkg == ParsedManifest(files)
    IN  {c \in {"desktop framework"} : detectedFramework(pkg) # ""}
        \cup {c \in {"IPC"} : hasIPC(files)}
        \cup {c \in {"no web server"} : ~hasHttpServer(pkg, files)}
        \cup {c \in {"no auth"} : ~hasAuth(pkg, files)}
        \cup {c \in {"single-user state"} : hasSingleUserState(files)}
        \cup {c \in {"embedded SQL"} : hasSQLite(pkg, files)}
        \cup {c \in {"filesystem write"} : hasFileStorage(files)}
        \cup {c \in {"hardcoded port"} : hasHardcodedPort(files)}
        \cup {c \in {"no health route"} : ~hasHealthCheck(files)}
        \cup {c \in {"no CORS"} : ~hasCORS(pkg, files)}

(* The inputs that differ from a list by one matched token or one         *)
(* manifest entry less.                                                    *)
Neighbours(files) ==
    UNION {{[files EXCEPT ![i].snippets = @ \ {s}] : s \in files[i].snippets} :
                    i \in 1..Len(files)}
    \cup UNION {{[files EXCEPT ![i].json.deps = @ \ {p}] : p \in files[i].json.deps} :
                    i \in 1..Len(files)}
    \cup UNION {{[files EXCEPT ![i].json.dev = @ \ {p}] : p \in files[i].json.dev} :
                    i \in 1..Len(files)}

(* The set y has every element of x and exactly one more. *)
OneMore(x, y) == x \subseteq y /\ Cardinality(y \ x) = 1

(* The points the web-only rules (auth, port, health, CORS) deducted. *)
WebOnlyDeduction(issues) ==
    SumImpacts(SelectSeq(issues, LAMBDA i : RuleRank(i) \in {3, 7, 8, 9}))

(* Monotonicity from an input with conditions ca and result ra to an       *)
(* input with conditions cb and result rb, as the claim states it.         *)
MonotoneAsStated(ca, ra, cb, rb) ==
    OneMore(ca, cb) => rb.score <= ra.score

MonotoneAmended(ca, ra, cb, rb) ==
    /\ OneMore(RanksOf(ra.issues), RanksOf(rb.issues)) => rb.score <= ra.score
    /\ (OneMore(ca, cb) /\ cb \ ca # {"no web server"}) => rb.score <= ra.score
    /\ (OneMore(ca, cb) /\ cb \ ca = {"no web server"}
           /\ WebOnlyDeduction(ra.issues) <= 40)
           => rb.score <= ra.score

(* C14 as stated: whenever an input has every rule condition of another    *)
(* and one more, its score is not higher.                                  *)
C14_MonotoneInConditions ==
    Returned =>
        LET here == Conditions(repoFiles)
        IN  \A other \in Neighbours(repoFiles) :
                LET there == Conditions(other)
                    scored == calculatePortabilityScore(other)
                IN  /\ MonotoneAsStated(here, result, there, scored)
                    /\ MonotoneAsStated(there, scored, here, result)

(* C14 amended: the score never rises when one more rule fires on top of   *)
(* the rules already firing, nor when one more condition other than "no    *)
(* web server" holds; when the added condition is "no web server" the      *)
(* score does not rise provided the web-only rules deducted at most 40     *)
(* points before.                                                          *)
C14_MonotoneInFiredRules ==
    Returned =>
        LET here == Conditions(repoFiles)
        IN  \A other \in Neighbours(repoFiles) :
                LET there == Conditions(other)
                    scored == calculatePortabilityScore(other)
                IN  /\ MonotoneAmended(here, result, there, scored)
                    /\ MonotoneAmended(there, scored, here, result)

(* C14 witness: dropping one token from the scored input removes exactly   *)
(* one condition and the score of the input with the token is strictly     *)
(* lower; a second neighbour loses the web server and its score rises.     *)
C14_Witness ==
    /\ Returned
    /\ \E other \in Neighbours(repoFiles) :
          /\ Conditions(repoFiles) \ Conditions(other) = {"single-user state"}
          /\ Conditions(other) \subseteq Conditions(repoFiles)
          /\ result.score < calculatePortabilityScore(other).score
    /\ \E other \in Neighbours(repoFiles) :
          /\ Conditions(other) \ Conditions(repoFiles) = {"no web server"}
          /\ Conditions(repoFiles) \subseteq Conditions(other)

(* No manifest, and no file matches any pattern. *)
NothingDetected ==
    /\ ~ManifestPresent
    /\ \A i \in 1..Len(repoFiles) : repoFiles[i].snippets = {}

(* The result of a call on which only the no-web-server rule fires. *)
OnlyNoServerResult ==
    /\ result.score = 60
    /\ result.severity = "OK"
    /\ result.canPort = TRUE
    /\ Len(result.issues) = 1
    /\ result.issues[1].category = "infrastructure"
    /\ result.issues[1].impact = 40
    /\ result.issues[1].blocker = FALSE

(* C15: the empty file list, and every input without a manifest and        *)
(* without a file matching any pattern, fires the no-web-server rule only: *)
(* score 60, severity OK, canPort true, one infrastructure issue of impact *)
(* 40 that is not a blocker.                                               *)
C15_EmptyRepository ==
    (ScoringEnded /\ NothingDetected) => (Returned /\ OnlyNoServerResult)

(* C15 witness: the empty list was scored. *)
C15_Witness ==
    /\ Returned
    /\ NothingDetected
    /\ repoFiles = <<>>

(* A manifest with an embedded-SQL package, a filesystem write in a file   *)
(* outside dependency paths, no web server and no other rule condition.    *)
SqlAndFileWriteOnly ==
    /\ (Dep(Pkg, "sqlite3") \/ Dep(Pkg, "better-sqlite3"))
    /\ hasFileStorage(repoFiles)
    /\ ~hasHttpServer(Pkg, repoFiles)
    /\ detectedFramework(Pkg) = ""
    /\ ~hasIPC(repoFiles)
    /\ ~hasSingleUserState(repoFiles)

(* C16: such an input scores exactly 100 - 40 - 15 - 15 = 30 and is        *)
(* WARNING, not BLOCKING, with no issue marked blocker.                    *)
C16_BoundaryAt30 ==
    (Returned /\ SqlAndFileWriteOnly) =>
        /\ result.score = 30
        /\ result.severity = "WARNING"
        /\ result.canPort = FALSE
        /\ RanksOf(result.issues) = {2, 5, 6}
        /\ \A k \in 1..Len(result.issues) : ~result.issues[k].blocker

(* C16 witness: the boundary input was scored. *)
C16_Witness ==
    /\ Returned
    /\ SqlAndFileWriteOnly
    /\ Len(result.issues) = 3

ServerFrameworkPackages == {"express", "fastify", "koa", "@hapi/hapi", "hono"}

(* The manifest lists a server framework and nothing else, a file listens  *)
(* on a literal port without reading the environment port, and nothing     *)
(* else is detected anywhere.                                              *)
FrameworkOnlyWebApp ==
    /\ ManifestPresent
    /\ Pkg.hasDeps
    /\ Pkg.deps # {}
    /\ Pkg.deps \subseteq ServerFrameworkPackages
    /\ Pkg.dev = {}
    /\ hasHardcodedPort(repoFiles)
    /\ ~hasAuth(Pkg, repoFiles)
    /\ ~hasHealthCheck(repoFiles)
    /\ ~hasCORS(Pkg, repoFiles)
    /\ ~hasIPC(repoFiles)
    /\ ~hasSingleUserState(repoFiles)
    /\ ~hasSQLite(Pkg, repoFiles)
    /\ ~hasFileStorage(repoFiles)

(* C17: on a web app with only the framework exactly the auth (-30),       *)
(* hardcoded-port (-10), health (-10) and CORS (-5) rules fire: score 45,  *)
(* severity WARNING.                                                       *)
C17_FrameworkOnlyWebApp ==
    (Returned /\ FrameworkOnlyWebApp) =>
        /\ RanksOf(result.issues) = {3, 7, 8, 9}
        /\ Len(result.issues) = 4
        /\ <<result.issues[1].impact, result.issues[2].impact,
             result.issues[3].impact, result.issues[4].impact>> = <<30, 10, 10, 5>>
        /\ result.score = 45
        /\ result.severity = "WARNING"

(* C17 witness: the framework-only web app was scored. *)
C17_Witness ==
    /\ Returned
    /\ FrameworkOnlyWebApp
    /\ result.score = 45

(* A web server, an auth indicator, a health route and a CORS indicator    *)
(* are detected, and none of the penalised features is.                    *)
FullyCompliant ==
    /\ hasHttpServer(Pkg, repoFiles)
    /\ hasAuth(Pkg, repoFiles)
    /\ hasHealthCheck(repoFiles)
    /\ hasCORS(Pkg, repoFiles)
    /\ detectedFramework(Pkg) = ""
    /\ ~hasIPC(repoFiles)
    /\ ~hasSingleUserState(repoFiles)
    /\ ~hasSQLite(Pkg, repoFiles)
    /\ ~hasFileStorage(repoFiles)
    /\ ~hasHardcodedPort(repoFiles)

(* C18: on a fully compliant web app no rule fires: score 100, severity    *)
(* OK, canPort true, no issues.                                            *)
C18_FullyCompliant ==
    (Returned /\ FullyCompliant) =>
        /\ result.score = 100
        /\ result.severity = "OK"
        /\ result.canPort = TRUE
        /\ result.issues = <<>>

(* C18 witness: a compliant web app whose framework, auth and CORS come    *)
(* from the manifest and whose health route comes from a source file was   *)
(* scored.                                                                 *)
C18_Witness ==
    /\ Returned
    /\ FullyCompliant
    /\ Dep(Pkg, "express") /\ Dep(Pkg, "passport") /\ Dep(Pkg, "cors")
    /\ result.score = 100

(* The positions of the issues of the result that are marked blocker. *)
BlockerPositions == {k \in 1..Len(result.issues) : result.issues[k].blocker}

(* The listed descriptions are those of the issues at the given positions, *)
(* in issue order.                                                         *)
ListsExactly(positions) ==
    LET listed == result.recommendation.listed
    IN  /\ Len(listed) = Cardinality(positions)
        /\ \A n \in 1..Len(listed) :
              \E k \in positions :
                  /\ Cardinality({j \in positions : j <= k}) = n
                  /\ listed[n] = result.issues[k].description

(* C19: a BLOCKING result of the rule evaluator lists exactly its blocker  *)
(* issues, in issue order; a WARNING and an OK result list every issue, in *)
(* issue order.                                                            *)
C19_ListedIssuesByTier ==
    (Returned /\ ~InstantFailed) =>
        /\ result.severity = "BLOCKING" => ListsExactly(BlockerPositions)
        /\ result.severity \in {"WARNING", "OK"} =>
              ListsExactly(1..Len(result.issues))

(* C19 witness: an accumulated BLOCKING result that has a blocker issue    *)
(* after an issue that is not a blocker, and lists only the former.        *)
C19_Witness ==
    /\ Returned
    /\ ~InstantFailed
    /\ result.severity = "BLOCKING"
    /\ Len(result.issues) >= 2
    /\ ~result.issues[1].blocker
    /\ result.issues[2].blocker
    /\ Len(result.recommendation.listed) = 1

RebuildDirectives ==
    {"Build a new Azure-native web application from scratch.",
     "Build a new Azure-native web application from scratch instead of porting."}

(* The text has a comparative estimate: two hour ranges, low before high. *)
HasTwoRangeEstimate(rec) ==
    /\ Len(rec.comparison) = 2
    /\ \A n \in 1..2 : rec.comparison[n][1] < rec.comparison[n][2]

(* C20 as stated: every BLOCKING recommendation states the numeric score,  *)
(* directs to rebuild from scratch and carries a two-range comparative     *)
(* effort estimate.                                                        *)
C20_BlockingTextComplete ==
    (Returned /\ result.severity = "BLOCKING") =>
        /\ result.recommendation.statesScore
        /\ result.recommendation.score = result.score
        /\ result.recommendation.directive \in RebuildDirectives
        /\ HasTwoRangeEstimate(result.recommendation)

(* C20 amended: every BLOCKING recommendation directs to rebuild from      *)
(* scratch; the instant-fail text names the framework, does not state the  *)
(* score and carries the comparison 60-100 hours (port and fix) versus     *)
(* 40-60 hours (rebuild); the accumulated text states the score of the     *)
(* result and carries no comparison.                                       *)
C20_BlockingTextByBranch ==
    (Returned /\ result.severity = "BLOCKING") =>
        /\ result.recommendation.directive \in RebuildDirectives
        /\ InstantFailed =>
              /\ ~result.recommendation.statesScore
              /\ result.recommendation.framework = detectedFramework(Pkg)
              /\ HasTwoRangeEstimate(result.recommendation)
              /\ result.recommendation.comparison = <<<<60, 100>>, <<40, 60>>>>
        /\ ~InstantFailed =>
              /\ result.recommendation.statesScore
              /\ result.recommendation.score = result.score
              /\ result.recommendation.comparison = <<>>

(* C20 witness: an instant-fail result, whose text has the comparison and  *)
(* no score.                                                               *)
C20_Witness ==
    /\ Returned
    /\ result.severity = "BLOCKING"
    /\ InstantFailed
    /\ HasTwoRangeEstimate(result.recommendation)
    /\ result.recommendation.framework = "tauri"

(* C21: an OK result with n issues reports the range 2n to 4n hours, in    *)
(* the recommendation and in estimatedEffort alike (0 to 0 without         *)
(* issues); estimatedEffort is present and non-empty in every result.      *)
C21_EffortLinearInIssueCount ==
    Returned =>
        /\ result.estimatedEffort.text # ""
        /\ result.severity = "OK" =>
              /\ result.recommendation.hoursLo = 2 * Len(result.issues)
              /\ result.recommendation.hoursHi = 4 * Len(result.issues)
              /\ result.estimatedEffort.hoursLo = 2 * Len(result.issues)
              /\ result.estimatedEffort.hoursHi = 4 * Len(result.issues)

(* C21 witness: an OK result with three issues, reporting 6 to 12 hours. *)
C21_Witness ==
    /\ Returned
    /\ result.severity = "OK"
    /\ Len(result.issues) = 3
    /\ result.estimatedEffort.hoursLo = 6
    /\ result.estimatedEffort.hoursHi = 12

(* The files at a nested manifest path, as if their dependency maps were   *)
(* empty.                                                                  *)
WithNestedManifestsEmptied(files) ==
    [i \in 1..Len(files) |->
        IF files[i].path \in JsonPaths \ {ManifestPath}
        THEN [files[i] EXCEPT !.json = [ok |-> TRUE, hasDeps |-> TRUE, deps |-> {},
                                        hasDev |-> TRUE, dev |-> {}]]
        ELSE files[i]]

NestedManifestPackages ==
    UNION {repoFiles[i].json.deps \cup repoFiles[i].json.dev :
              i \in {k \in 1..Len(repoFiles) :
                        repoFiles[k].path \in JsonPaths \ {ManifestPath}}}

(* C22: only the file at path package.json is the manifest: the scoring    *)
(* call never fails on a nested manifest and returns the result of the     *)
(* same input with the nested manifest's dependency maps empty.            *)
C22_OnlyRootManifest ==
    (ScoringEnded /\ ~ScoringThrows(WithNestedManifestsEmptied(repoFiles))) =>
        /\ Returned
        /\ result = calculatePortabilityScore(WithNestedManifestsEmptied(repoFiles))

(* C22 witness: a nested manifest lists a desktop framework and a server   *)
(* framework, no root manifest exists, and the result is that of an empty  *)
(* repository.                                                             *)
C22_Witness ==
    /\ Returned
    /\ ~ManifestPresent
    /\ {"electron", "express"} \subseteq NestedManifestPackages
    /\ result.score = 60
    /\ Len(result.issues) = 1

(* C27: a BLOCKING result has at least one issue marked blocker, so the    *)
(* "Critical issues found" list of the accumulated BLOCKING text is never  *)
(* empty.                                                                  *)
C27_BlockingHasBlocker ==
    (Returned /\ result.severity = "BLOCKING") =>
        /\ BlockerPositions # {}
        /\ ~InstantFailed => result.recommendation.listed # <<>>

(* C28: an issue marked blocker occurs only in a BLOCKING result; in an    *)
(* accumulated result the IPC issue is never a blocker, the no-web-server  *)
(* issue is one exactly when the IPC rule fired too, and no other issue    *)
(* is one.                                                                 *)
C28_BlockerOnlyInCannotPortZone ==
    Returned =>
        /\ BlockerPositions # {} => result.severity = "BLOCKING"
        /\ ~InstantFailed =>
              \A k \in 1..Len(result.issues) :
                  result.issues[k].blocker <=>
                      (/\ RuleRank(result.issues[k]) = 2
                       /\ 1 \in RanksOf(result.issues))

(* C28 witness: the IPC rule and the no-web-server rule both fired; the    *)
(* second issue is the only blocker.                                       *)
C28_Witness ==
    /\ Returned
    /\ ~InstantFailed
    /\ {1, 2} \subseteq RanksOf(result.issues)
    /\ BlockerPositions = {2}
    /\ result.severity = "BLOCKING"

(* Some single file has the triggering pattern and lacks the suppressing   *)
(* one.                                                                    *)
UnscopedGlobalStateFile ==
    \E i \in 1..Len(repoFiles) :
        /\ GlobalStatePattern \cap repoFiles[i].snippets # {}
        /\ UserScopePattern \cap repoFiles[i].snippets = {}

LiteralPortFile ==
    \E i \in 1..Len(repoFiles) :
        /\ ListenPattern \cap repoFiles[i].snippets # {}
        /\ EnvPortPattern \cap repoFiles[i].snippets = {}

(* C29 as stated: each of the two rules fires iff some single file has the *)
(* triggering pattern and lacks the suppressing one.                       *)
C29_PerFileDecision ==
    (Returned /\ ~InstantFailed) =>
        /\ 4 \in RanksOf(result.issues) <=> UnscopedGlobalStateFile
        /\ 7 \in RanksOf(result.issues) <=> LiteralPortFile

(* C29 amended: the single-user-state rule fires iff some single file has  *)
(* the global-state pattern and lacks the user-scope pattern; the          *)
(* hardcoded-port rule fires iff a web server is detected and some single  *)
(* file has a literal port in a listen call and lacks the environment port *)
(* read.  A suppressing pattern in another file changes nothing.           *)
C29_PerFileDecisionGated ==
    (Returned /\ ~InstantFailed) =>
        /\ 4 \in RanksOf(result.issues) <=> UnscopedGlobalStateFile
        /\ 7 \in RanksOf(result.issues) <=>
              (LiteralPortFile /\ hasHttpServer(Pkg, repoFiles))

(* C29 witness: one file listens on a literal port, a different file reads *)
(* the environment port, a server is detected and the port rule fired.     *)
C29_Witness ==
    /\ Returned
    /\ ~InstantFailed
    /\ LiteralPortFile
    /\ \E j \in 1..Len(repoFiles) : EnvPortPattern \cap repoFiles[j].snippets # {}
    /\ 7 \in RanksOf(result.issues)

StorageIssues == {k \in 1..Len(result.issues) : result.issues[k].category = "storage"}

(* The files with a filesystem-write call, by position. *)
WritingFiles == {i \in 1..Len(repoFiles) : FsWritePattern \cap repoFiles[i].snippets # {}}

(* C30: a filesystem write in a file under node_modules never causes the   *)
(* storage deduction; a write in any other file yields exactly one storage *)
(* issue of impact 15.                                                     *)
C30_StorageIgnoresDependencies ==
    (Returned /\ ~InstantFailed) =>
        /\ (\A i \in WritingFiles : repoFiles[i].path \in NodeModulesPaths)
              => StorageIssues = {}
        /\ (\E i \in WritingFiles : repoFiles[i].path \notin NodeModulesPaths)
              => /\ Cardinality(StorageIssues) = 1
                 /\ \A k \in StorageIssues : result.issues[k].impact = 15

(* C30 witness: the only filesystem write is in a file under node_modules  *)
(* and the result has no storage issue.                                    *)
C30_Witness ==
    /\ Returned
    /\ ~InstantFailed
    /\ WritingFiles # {}
    /\ \A i \in WritingFiles : repoFiles[i].path \in NodeModulesPaths
    /\ StorageIssues = {}

----------------------------------------------------------------------------
(* Properties of the porter, the checker and the patch generator *)

Patched == pc = "patched"

Checked == pc = "checked"

(* C24: the porter rejects (success false, no files) iff the score is      *)
(* below 30; from 30 on it succeeds with generated files, with a warning   *)
(* on the console for scores below 50; the PortingResult always carries    *)
(* the PortabilityResult of the repository.                                *)
C24_PorterGatesOnScore ==
    Patched =>
        LET p == porting.portability
        IN  /\ p = calculatePortabilityScore(repoFiles)
            /\ (~porting.success /\ porting.files = <<>>) <=> p.score < 30
            /\ p.score >= 30 => (porting.success /\ porting.files # <<>>)
            /\ (p.score >= 30 /\ p.score < 50) =>
                  \E k \in 1..Len(console) : console[k].score = p.score

(* C24 witness: a repository scored between 30 and 49 was ported with a    *)
(* warning.                                                                *)
C24_Witness ==
    /\ Patched
    /\ porting.portability.score >= 30
    /\ porting.portability.score < 50
    /\ porting.success
    /\ Len(porting.files) >= 3
    /\ console # <<>>

(* The entries 2.. of the checker's list are the given issues, in order. *)
FollowedBy(issues) ==
    /\ Len(readiness) = 1 + Len(issues)
    /\ \A k \in 1..Len(issues) :
          /\ readiness[k + 1].text = issues[k].description
          /\ readiness[k + 1].impact = issues[k].impact
          /\ readiness[k + 1].tag = IF issues[k].blocker THEN "BLOCKER" ELSE "CRITICAL"

(* C25: below 30 the checker returns the CANNOT PORT headline followed by  *)
(* the blocker issues only; from 30 to 49 the NOT RECOMMENDED headline     *)
(* followed by every portability issue in order; the standard checks run   *)
(* only from 50 on.                                                        *)
C25_CheckerGatesOnScore ==
    Checked =>
        LET p == calculatePortabilityScore(repoFiles)
        IN  /\ p.score < 30 =>
                  /\ readiness[1].text = "CANNOT PORT: Portability Score"
                  /\ readiness[1].score = p.score
                  /\ FollowedBy(SelectSeq(p.issues, LAMBDA i : i.blocker))
            /\ (p.score >= 30 /\ p.score < 50) =>
                  /\ readiness[1].text = "NOT RECOMMENDED TO PORT: Portability Score"
                  /\ readiness[1].score = p.score
                  /\ FollowedBy(p.issues)
            /\ p.score >= 50 =>
                  \A k \in 1..Len(readiness) : readiness[k].category # "runtime"
            /\ p.score < 50 =>
                  \A k \in 1..Len(readiness) : readiness[k].category = "runtime"

(* C25 witness: a repository with a local file write scored between 30     *)
(* and 49; the list is the headline and the portability issues, without    *)
(* the standard storage entry.                                             *)
C25_Witness ==
    /\ Checked
    /\ \E f \in FilesOf(repoFiles) : "fs.writeFile" \in f.snippets
    /\ readiness # <<>>
    /\ readiness[1].text = "NOT RECOMMENDED TO PORT: Portability Score"
    /\ Len(readiness) >= 3

(* C26: the canPort flag of a PatchResult equals the canPort of the        *)
(* portability result it carries, and success is false iff the porter      *)
(* rejected the repository.                                                *)
C26_PatchCanPortMatchesPortability ==
    Patched =>
        /\ patch.canPort = patch.portability.canPort
        /\ ~patch.success <=> ~porting.success

----------------------------------------------------------------------------
(* Properties of concurrent scoring calls *)

CallOutcomeIsSequential ==
    \A c \in Callers :
        /\ calls[c].step = "returned" =>
              /\ ~ScoringThrows(calls[c].input)
              /\ calls[c].result = calculatePortabilityScore(calls[c].input)
        /\ calls[c].step = "threw" => ScoringThrows(calls[c].input)

(* C23: however the steps of two scoring calls interleave, each call ends  *)
(* as a lone sequential call on its own input would, and no step changes   *)
(* the input list of either call.                                          *)
C23_CallsShareNoState ==
    /\ [](CallOutcomeIsSequential)
    /\ [][\A c \in Callers : calls'[c].input = calls[c].input]_vars

(* C23 witness: the second caller has returned its result although the     *)
(* first caller, scoring a different list, is in the middle of its rules   *)
(* and has already deducted points.                                        *)
C23_Witness ==
    /\ calls["second"].step = "returned"
    /\ calls["first"].step = "storage"
    /\ calls["first"].input # calls["second"].input
    /\ locals["first"].score < 100
    /\ calls["second"].result.score > locals["first"].score

====
